---- MODULE Spec2Model ----
(***************************************************************************)
(* Model of launcher/ui/java/InstallJavaDialog.cpp: the Java install       *)
(* dialog (Java::InstallDialog) and its three vendor pages                 *)
(* (InstallLoaderPage).  Every handler of the dialog runs on the UI        *)
(* thread; one action of the model is one handler run to completion, with  *)
(* the signals it emits delivered synchronously (direct connections).      *)
(* The only place where a handler blocks is ProgressDialog::execWithTask,  *)
(* which runs a nested event loop: InstallDialog::done is therefore split  *)
(* at that call.                                                           *)
(***************************************************************************)
EXTENDS Naturals, Sequences, FiniteSets

VARIABLES
    selectedPage,   \* container->selectedPage(), an index into getPages
    loaded,         \* InstallLoaderPage::loaded, per page
    majorList,      \* uid of the list majorVersionSelect was initialized with
    majorSel,       \* current entry of majorVersionSelect
    javaList,       \* the Meta::Version javaVersionSelect's list was built from
    javaSel,        \* javaVersionSelect->selectedVersion()
    initCount,      \* number of calls of InstallLoaderPage::initialize, per page
    okEnabled,      \* buttons->button(QDialogButtonBox::Ok)->isEnabled()
    pc,             \* "open": event loop; "exec": inside execWithTask; "finished"
    result,         \* argument of the call of done in progress or completed
    task,           \* the Task::Ptr built by done
    final_path,     \* the path captured by the deletePath lambda
    connections,    \* signals of the task connected to deletePath
    taskState,      \* "none", "running", "succeeded", "failed", "aborted"
    running,        \* number of tasks being executed by a progress dialog
    deleted,        \* paths FS::deletePath was called on
    dialogResult    \* argument QDialog::done was reached with

pageVars == <<loaded, majorList, majorSel, javaList, javaSel, initCount>>
taskVars == <<result, task, final_path, connections, taskState, running, deleted, dialogResult>>
vars == <<selectedPage, pageVars, okEnabled, pc, taskVars>>

\* ---------------------------------------------------------------- bounds
\* major versions per vendor list
MaxMajor == 2
\* runtimes per major version
MaxRuntime == 1
\* tasks a done that does not block may start
MaxMutantTasks == 2

\* ---------------------------------------------------------------- data
\* The ids of the pages InstallDialog::getPages builds, in order.
getPages == <<"net.minecraft.java", "net.adoptium.java", "com.azul.java">>
Pages == 1..Len(getPages)
id(page) == getPages[page]

\* uid arguments of the constructor: a page's id, or one no page has
CtorUids == {id(p) : p \in Pages} \cup {"other"}

Accepted == "Accepted"
Rejected == "Rejected"
DialogCodes == {Accepted, Rejected}

\* the ways a task ends: the signal it emits last
Outcomes == {"succeeded", "failed", "aborted"}

\* Java::DownloadType
DownloadTypes == {"Manifest", "Archive"}

NullList == "nullptr"
NullVersion == [type |-> "nullptr", uid |-> "", major |-> 0]
NullRuntime == [type |-> "nullptr", m_name |-> <<>>, url |-> <<>>, checksumType |-> "",
                checksumHash |-> <<>>, downloadType |-> ""]
NullTask == [kind |-> "nullptr", url |-> <<>>, path |-> <<>>, checksumType |-> "", checksumHash |-> <<>>]
NoPath == <<>>

\* entries of the Meta::VersionList of a vendor
Majors(uid) ==
    IF uid = NullList THEN {}
    ELSE {[type |-> "Meta::Version", uid |-> uid, major |-> n] : n \in 1..MaxMajor}

\* entries of the Java::VersionList built from a Meta::Version
Runtimes(version) ==
    IF version = NullVersion THEN {}
    ELSE {[type |-> "Java::Metadata",
           m_name |-> <<version.uid, version.major, i>>,
           url |-> <<"https", version.uid, version.major, i>>,
           checksumType |-> IF version.uid = getPages[1] THEN "sha1" ELSE "sha256",
           checksumHash |-> <<"hash", version.uid, version.major, i>>,
           downloadType |-> IF version.uid = getPages[1] THEN "Manifest" ELSE "Archive"]
          : i \in 1..MaxRuntime}

AllRuntimes == UNION {Runtimes(m) : m \in UNION {Majors(id(p)) : p \in Pages}}

\* std::dynamic_pointer_cast<Meta::Version>(version) succeeds
IsMetaVersion(version) == version.type = "Meta::Version"
\* std::dynamic_pointer_cast<Java::Metadata>(version) succeeds
IsJavaMetadata(version) == version.type = "Java::Metadata"

javaPath == "javaPath"
PathCombine(a, b) == <<a, b>>

\* APPLICATION->metadataIndex()->get(uid): the list of that uid, or none
metadataIndexGet(uid) == {uid, NullList}

pageFrame == UNCHANGED <<selectedPage, pageVars, okEnabled>>

\* ---------------------------------------------------------------- pages
\* InstallLoaderPage::selectedVersion
selectedVersion(page) == javaSel[page]

\* validate with the comparison inverted
validateResultInverted(version) == version = NullRuntime

\* the value validate gives the Download button
validateResult(version) == version # NullRuntime

\* InstallDialog::validate, reading the selection the handler has produced so far
validate(page) == okEnabled' = validateResult(javaSel'[page])

\* the slot without its test of the emitting page, validating that page
onSelectedVersionChangedAnyPage(page) == validate(page)

\* the slot connected to a page's selectedVersionChanged
onSelectedVersionChanged(page) ==
    IF id(page) = id(selectedPage)
    THEN validate(selectedPage)
    ELSE UNCHANGED okEnabled

\* the slot connected to the container's selectedPageChanged
onSelectedPageChanged(previous, current) == validate(current)

\* setSelectedVersion without the test of the cast: a null version gives
\* javaVersionSelect an empty list
setSelectedVersionNoCast(page, version) ==
    \E sel \in {NullRuntime} \cup Runtimes(version) :
        /\ javaList' = [javaList EXCEPT ![page] = version]
        /\ javaSel' = [javaSel EXCEPT ![page] = sel]
        /\ IF sel # javaSel[page]
           THEN onSelectedVersionChanged(page)
           ELSE UNCHANGED okEnabled

\* InstallLoaderPage::setSelectedVersion: javaVersionSelect gets the list of the
\* version's runtimes and selects one of them or none, and emits
\* selectedVersionChanged when its selected version changed
setSelectedVersion(page, version) ==
    IF ~IsMetaVersion(version)
    THEN UNCHANGED <<javaList, javaSel, okEnabled>>
    ELSE \E sel \in {NullRuntime} \cup Runtimes(version) :
            /\ javaList' = [javaList EXCEPT ![page] = version]
            /\ javaSel' = [javaSel EXCEPT ![page] = sel]
            /\ IF sel # javaSel[page]
               THEN onSelectedVersionChanged(page)
               ELSE UNCHANGED okEnabled

\* InstallLoaderPage::initialize
initialize(page, vlist) ==
    /\ majorList' = [majorList EXCEPT ![page] = vlist]
    /\ initCount' = [initCount EXCEPT ![page] = @ + 1]

\* openedImpl without the assignment loaded = true
openedImplNotMarked(page) ==
    IF loaded[page]
    THEN UNCHANGED <<loaded, majorList, initCount>>
    ELSE \E versions \in metadataIndexGet(id(page)) :
            IF versions = NullList
            THEN UNCHANGED <<loaded, majorList, initCount>>
            ELSE /\ initialize(page, versions)
                 /\ UNCHANGED loaded

\* InstallLoaderPage::openedImpl
openedImpl(page) ==
    IF loaded[page]
    THEN UNCHANGED <<loaded, majorList, initCount>>
    ELSE \E versions \in metadataIndexGet(id(page)) :
            IF versions = NullList
            THEN UNCHANGED <<loaded, majorList, initCount>>
            ELSE /\ initialize(page, versions)
                 /\ loaded' = [loaded EXCEPT ![page] = TRUE]

\* InstallLoaderPage::loadList: both widgets start reloading the list they
\* hold; what the reload selects arrives later (MajorSelected, JavaSelected)
loadList(page) == UNCHANGED <<majorList, majorSel, javaList, javaSel>>

\* ---------------------------------------------------------------- construction
\* The state InstallDialog::InstallDialog(uid) leaves: the container opened its
\* first page, the loop selected the page whose id is uid, validate ran last.
Init ==
    \E uid \in CtorUids :
        /\ selectedPage = IF \E p \in Pages : id(p) = uid
                          THEN CHOOSE p \in Pages : id(p) = uid
                          ELSE 1
        /\ loaded \in [Pages -> BOOLEAN]
        /\ \A p \in Pages : loaded[p] => p \in {1, selectedPage}
        /\ majorList = [p \in Pages |-> IF loaded[p] THEN id(p) ELSE NullList]
        /\ initCount = [p \in Pages |-> IF loaded[p] THEN 1 ELSE 0]
        /\ majorSel = [p \in Pages |-> NullVersion]
        /\ javaList = [p \in Pages |-> NullVersion]
        /\ javaSel = [p \in Pages |-> NullRuntime]
        /\ okEnabled = validateResult(selectedVersion(selectedPage))
        /\ pc = "open"
        /\ result = "none"
        /\ task = NullTask
        /\ final_path = NoPath
        /\ connections = {}
        /\ taskState = "none"
        /\ running = 0
        /\ deleted = {}
        /\ dialogResult = "none"

\* ---------------------------------------------------------------- page events
\* the user selects another page in the container
SelectPage(current) ==
    /\ pc = "open"
    /\ current # selectedPage
    /\ selectedPage' = current
    /\ UNCHANGED <<majorSel, javaList, javaSel>>
    /\ onSelectedPageChanged(selectedPage, current)
    /\ openedImpl(current)
    /\ UNCHANGED <<pc, taskVars>>

\* the current entry of a page's majorVersionSelect changes (a click of the
\* user on the selected page, or the selection a list load ends with on any
\* page): the widget emits selectedVersionChanged(version)
MajorSelected(page, version) ==
    /\ \/ pc = "open"
       \/ pc = "exec" /\ taskState = "running"
    /\ version \in {NullVersion} \cup Majors(majorList[page])
    /\ version # majorSel[page]
    /\ majorSel' = [majorSel EXCEPT ![page] = version]
    /\ setSelectedVersion(page, version)
    /\ UNCHANGED <<selectedPage, loaded, majorList, initCount, pc, taskVars>>

\* the selected version of a page's javaVersionSelect changes (a click, or a
\* list load ending): the widget emits selectedVersionChanged, the page relays it
JavaSelected(page, version) ==
    /\ \/ pc = "open"
       \/ pc = "exec" /\ taskState = "running"
    /\ version \in {NullRuntime} \cup Runtimes(javaList[page])
    /\ version # javaSel[page]
    /\ javaSel' = [javaSel EXCEPT ![page] = version]
    /\ onSelectedVersionChanged(page)
    /\ UNCHANGED <<selectedPage, loaded, majorList, majorSel, javaList, initCount, pc, taskVars>>

\* the Refresh button
Refresh ==
    /\ pc = "open"
    /\ loadList(selectedPage)
    /\ UNCHANGED <<selectedPage, loaded, initCount, okEnabled, pc, taskVars>>

\* ---------------------------------------------------------------- done
\* done reading the first page instead of the selected one
donePageFirst == CHOOSE p \in Pages : \A q \in Pages : p <= q

\* the page done reads the selection of
donePage == selectedPage

\* the switch with the two constructors exchanged
makeTaskSwapped(meta, path) ==
    CASE meta.downloadType = "Manifest" ->
            [kind |-> "ArchiveDownloadTask", url |-> meta.url, path |-> path,
             checksumType |-> meta.checksumType, checksumHash |-> meta.checksumHash]
      [] meta.downloadType = "Archive" ->
            [kind |-> "ManifestDownloadTask", url |-> meta.url, path |-> path,
             checksumType |-> meta.checksumType, checksumHash |-> meta.checksumHash]
      [] OTHER -> NullTask

\* the switch without its Archive case
makeTaskNoArchive(meta, path) ==
    CASE meta.downloadType = "Manifest" ->
            [kind |-> "ManifestDownloadTask", url |-> meta.url, path |-> path,
             checksumType |-> meta.checksumType, checksumHash |-> meta.checksumHash]
      [] OTHER -> NullTask

\* the switch on meta->downloadType and the two task constructors
makeTask(meta, path) ==
    CASE meta.downloadType = "Manifest" ->
            [kind |-> "ManifestDownloadTask", url |-> meta.url, path |-> path,
             checksumType |-> meta.checksumType, checksumHash |-> meta.checksumHash]
      [] meta.downloadType = "Archive" ->
            [kind |-> "ArchiveDownloadTask", url |-> meta.url, path |-> path,
             checksumType |-> meta.checksumType, checksumHash |-> meta.checksumHash]
      [] OTHER -> NullTask

\* done without the connection of aborted
deletePathSignalsFailedOnly == {"failed"}

\* the signals of the task done connects deletePath to
deletePathSignals == {"failed", "aborted"}

\* the deletePath lambda
deletePath == deleted' = deleted \cup {final_path}

\* QDialog::done(result), the last statement of InstallDialog::done
QDialogDone(res) ==
    /\ pc' = "finished"
    /\ dialogResult' = res

\* done starting the task and returning to the event loop, the dialog left open
doneAcceptedNotBlocking(meta) ==
    /\ running < MaxMutantTasks
    /\ final_path' = PathCombine(javaPath, meta.m_name)
    /\ task' = makeTask(meta, PathCombine(javaPath, meta.m_name))
    /\ connections' = deletePathSignals
    /\ taskState' = "running"
    /\ running' = running + 1
    /\ UNCHANGED <<pc, deleted, dialogResult>>

\* done, taken with a selected Java::Metadata: up to the call of execWithTask,
\* which runs the task in the progress dialog's own event loop
doneAccepted(meta) ==
    /\ final_path' = PathCombine(javaPath, meta.m_name)
    /\ task' = makeTask(meta, PathCombine(javaPath, meta.m_name))
    /\ connections' = deletePathSignals
    /\ taskState' = "running"
    /\ running' = running + 1
    /\ pc' = "exec"
    /\ UNCHANGED <<deleted, dialogResult>>

\* InstallDialog::done(result), called from the event loop
done(res) ==
    /\ pc = "open"
    /\ result' = res
    /\ IF /\ res = Accepted
          /\ selectedVersion(donePage) # NullRuntime
          /\ IsJavaMetadata(selectedVersion(donePage))
       THEN doneAccepted(selectedVersion(donePage))
       ELSE /\ QDialogDone(res)
            /\ UNCHANGED <<task, final_path, connections, taskState, running, deleted>>
    /\ pageFrame

\* the Download button: accepted -> QDialog::accept -> done(Accepted)
Download ==
    /\ okEnabled
    /\ done(Accepted)

\* a double click in the runtime list of the selected page:
\* doubleClicked -> QDialog::accept -> done(Accepted)
DoubleClick ==
    /\ Runtimes(javaList[selectedPage]) # {}
    /\ done(Accepted)

\* the Cancel button: rejected -> QDialog::reject -> done(Rejected)
Cancel ==
    /\ pc = "open"
    /\ done(Rejected)

\* the task run by the progress dialog ends and emits succeeded, failed or aborted
TaskEnds(outcome) ==
    /\ pc = "exec"
    /\ task # NullTask
    /\ taskState = "running"
    /\ taskState' = outcome
    /\ IF outcome \in connections THEN deletePath ELSE UNCHANGED deleted
    /\ UNCHANGED <<pc, result, task, final_path, connections, running, dialogResult>>
    /\ pageFrame

\* done rejecting the dialog when the task did not succeed
ExecReturnsRejectOnFailure ==
    /\ pc = "exec"
    /\ taskState \in Outcomes
    /\ running' = running - 1
    /\ QDialogDone(IF taskState = "succeeded" THEN result ELSE Rejected)
    /\ UNCHANGED <<result, task, final_path, connections, taskState, deleted>>
    /\ pageFrame

\* execWithTask returns to done, which ends with QDialog::done(result)
ExecReturns ==
    /\ pc = "exec"
    /\ taskState \in Outcomes
    /\ running' = running - 1
    /\ QDialogDone(result)
    /\ UNCHANGED <<result, task, final_path, connections, taskState, deleted>>
    /\ pageFrame

Next ==
    \/ \E p \in Pages : SelectPage(p)
    \/ \E p \in Pages : \E v \in {NullVersion} \cup Majors(id(p)) : MajorSelected(p, v)
    \/ \E p \in Pages : \E v \in {NullRuntime} \cup AllRuntimes : JavaSelected(p, v)
    \/ Refresh
    \/ Download
    \/ DoubleClick
    \/ Cancel
    \/ \E o \in Outcomes : TaskEnds(o)
    \/ ExecReturns

Spec == Init /\ [][Next]_vars

\* ---------------------------------------------------------------- properties
\* the version whose url a task was built with
VersionOfTask(t) == CHOOSE v \in AllRuntimes : v.url = t.url

\* a step that is a call of done from the event loop
DoneCalled == pc = "open" /\ pc' # "open"

C2_DeletedIffFailedOrAborted ==
    /\ task # NullTask =>
         /\ final_path = task.path
         /\ final_path = PathCombine(javaPath, VersionOfTask(task).m_name)
    /\ deleted = IF taskState \in {"failed", "aborted"} THEN {final_path} ELSE {}

\* C2 witness: the task was aborted and its path deleted.
C2_Witness ==
    /\ taskState = "aborted"
    /\ task # NullTask
    /\ task.path \in deleted

\* C3: the kind of the task built by done follows from the downloadType of the
\* version alone (Manifest: ManifestDownloadTask, Archive:
\* ArchiveDownloadTask), and the task carries that version's url, checksumType
\* and checksumHash and the destination path.
C3_TaskKindByDownloadType ==
    task # NullTask =>
        \E v \in AllRuntimes :
            /\ task.url = v.url
            /\ v.downloadType \in DownloadTypes
            /\ (v.downloadType = "Manifest") <=> (task.kind = "ManifestDownloadTask")
            /\ (v.downloadType = "Archive") <=> (task.kind = "ArchiveDownloadTask")
            /\ task.checksumType = v.checksumType
            /\ task.checksumHash = v.checksumHash
            /\ task.path = PathCombine(javaPath, v.m_name)

\* C3 witness: an ArchiveDownloadTask was built for a version of the second
\* vendor.
C3_Witness ==
    /\ task.kind = "ArchiveDownloadTask"
    /\ task.url = <<"https", id(2), 1, 1>>

\* C4: a call of done starts a task exactly when its result is Accepted and the
\* selected page has a selected Java::Metadata, and the task is then built from
\* that version; a task is started by no other step; a call that starts no
\* task deletes nothing.
C4_TaskIffAcceptedWithSelection ==
    [][LET sel == javaSel[selectedPage] IN
       /\ task' # task =>
            /\ DoneCalled
            /\ task' # NullTask
            /\ task'.url = sel.url
            /\ task'.path = PathCombine(javaPath, sel.m_name)
            /\ taskState' = "running"
       /\ DoneCalled =>
            /\ (result' = Accepted /\ sel # NullRuntime /\ IsJavaMetadata(sel)) <=> (task' # task)
            /\ task' = task => (deleted' = deleted /\ taskState' = taskState /\ pc' = "finished")
      ]_vars

\* C4 witness: a task runs for the version selected on the second page while
\* the first page has a selected version of its own.
C4_Witness ==
    /\ pc = "exec"
    /\ selectedPage = 2
    /\ javaSel[1] # NullRuntime
    /\ javaSel[2] # NullRuntime
    /\ task.url = javaSel[2].url

\* C5: QDialog::done is reached with the result done was called with, in the
\* same step when done starts no task, and otherwise only from inside
\* execWithTask once the task has ended, whatever its outcome; a task that has
\* ended always lets execWithTask return.
C5_DoneAfterExec ==
    /\ [][/\ dialogResult' # dialogResult =>
               /\ dialogResult' = result'
               /\ pc' = "finished"
               /\ \/ DoneCalled /\ task' = NullTask
                  \/ pc = "exec" /\ taskState \in Outcomes /\ result' = result
          /\ (DoneCalled /\ pc' = "exec") => (dialogResult' = "none" /\ taskState' = "running")
         ]_vars
    /\ []((pc = "exec" /\ taskState \in Outcomes) => ENABLED ExecReturns)
    /\ [](pc = "finished" <=> dialogResult # "none")

\* C5 witness: the dialog finished Accepted after a task that failed.
C5_Witness ==
    /\ pc = "finished"
    /\ taskState = "failed"
    /\ dialogResult = Accepted

\* C6: initialize is called at most once per page, with the list of the page's
\* own id and on an opening of that page; a loaded page is never loaded again;
\* an opening whose lookup gives no list leaves the page as it was.
C6_InitializeOnce ==
    [][\A p \in Pages :
        /\ initCount'[p] <= 1
        /\ initCount'[p] # initCount[p] =>
              /\ ~loaded[p] /\ loaded'[p]
              /\ initCount'[p] = initCount[p] + 1
              /\ majorList'[p] = id(p)
              /\ selectedPage # p /\ selectedPage' = p
        /\ loaded[p] =>
              /\ loaded'[p]
              /\ majorList'[p] = majorList[p]
              /\ initCount'[p] = initCount[p]
        /\ (selectedPage # p /\ selectedPage' = p /\ ~loaded'[p]) =>
              /\ majorList'[p] = majorList[p]
              /\ majorSel'[p] = majorSel[p]
              /\ javaList'[p] = javaList[p]
              /\ javaSel'[p] = javaSel[p]
              /\ initCount'[p] = initCount[p]
      ]_vars

\* C6 witness: the third page is loaded, by one call of initialize, and the
\* second page is selected and not loaded, its lookup having given no list.
C6_Witness ==
    /\ loaded[3] /\ initCount[3] = 1 /\ majorList[3] = id(3)
    /\ selectedPage = 2
    /\ ~loaded[2] /\ initCount[2] = 0

\* C7: at most one task is being executed at any time, and only inside
\* execWithTask: no task is started while one is executing.
C7_OneTaskAtATime ==
    /\ running <= 1
    /\ running = 1 <=> pc = "exec"
    /\ taskState = "running" => pc = "exec"

\* C7 witness: a task is running while the Download button is enabled.
C7_Witness ==
    /\ pc = "exec"
    /\ taskState = "running"
    /\ running = 1
    /\ okEnabled

C9_OtherPageLeavesButton ==
    [][/\ (selectedPage' = selectedPage /\ javaSel'[selectedPage] = javaSel[selectedPage])
            => okEnabled' = okEnabled
       /\ okEnabled' # okEnabled => okEnabled' = (javaSel'[selectedPage'] # NullRuntime)
      ]_vars

\* C9 witness: the first page is selected with no selected runtime and the
\* button disabled, while the second page has a selected runtime.
C9_Witness ==
    /\ selectedPage = 1
    /\ javaSel[1] = NullRuntime
    /\ javaList[1] # NullVersion
    /\ javaSel[2] # NullRuntime
    /\ ~okEnabled

\* C10: when the current major version of a page changes to a Meta::Version,
\* the page's runtime list becomes the list of that version and its selected
\* runtime an entry of that list or none; when it changes to no version, the
\* page's runtime list and selected runtime stay; the other pages' lists and
\* selections stay.
C10_SetSelectedVersionFrame ==
    [][\A p \in Pages :
        majorSel'[p] # majorSel[p] =>
            /\ IF IsMetaVersion(majorSel'[p])
               THEN /\ javaList'[p] = majorSel'[p]
                    /\ javaSel'[p] \in {NullRuntime} \cup Runtimes(majorSel'[p])
               ELSE /\ javaList'[p] = javaList[p]
                    /\ javaSel'[p] = javaSel[p]
            /\ \A q \in Pages \ {p} :
                  /\ majorList'[q] = majorList[q]
                  /\ majorSel'[q] = majorSel[q]
                  /\ javaList'[q] = javaList[q]
                  /\ javaSel'[q] = javaSel[q]
                  /\ loaded'[q] = loaded[q]
      ]_vars

\* C10 witness: a page whose current major version became none keeps the
\* runtime list and the selected runtime it had.
C10_Witness ==
    \E p \in Pages :
        /\ majorSel[p] = NullVersion
        /\ javaList[p] # NullVersion
        /\ javaSel[p] # NullRuntime
====
